---- MODULE Spec2Model ----
(***************************************************************************)
(* A model of the ray tracer of output-raw.cpp (the richer variant): the   *)
(* Color value type, nearest-hit resolution, shading with binary shadows,  *)
(* the bounded reflection loop of renderImage and the framebuffer passes   *)
(* of main.  The Color constructor and operator+ of the simpler variant    *)
(* (no clamping) are modelled beside them.                                 *)
(*                                                                         *)
(* Floating-point quantities are carried in fixed point:                   *)
(*   - colour channels and shading scalars in hundredths (Unit = 1.0f);    *)
(*   - reflectionFactor in units of 1/5^10, in which 0.6^k is an integer   *)
(*     for every k <= 10;                                                  *)
(*   - ray parameters t in units of 0.00001, the epsilon of line 131.      *)
(* The vector geometry itself (the roots raySphereIntersections returns    *)
(* for a ray and a sphere, the dot products inside calculateLambert and    *)
(* calculatePhong) is an input of the steps that use it, drawn from small  *)
(* sets; everything the code does with those numbers is modelled.          *)
(***************************************************************************)
EXTENDS Integers, Sequences, FiniteSets, TLC

\* ------------------------------------------------------------------ bounds
Resolution == 2     \* image side used by the whole-program specification
TMax == 3           \* largest ray parameter drawn, in units of 0.00001
BounceBound == 1    \* most reflections per pixel in the scenes of EnvFrame and EnvTwice
LitBound == 1       \* most lit (unshadowed, facing) light samples per pixel in EnvTrace

\* --------------------------------------------------------------- constants
Unit == 100                 \* 1.0f in hundredths
FactorUnit == 9765625       \* 1.0f for reflectionFactor: 5^10
Epsilon == 1                \* 0.00001f (line 131)
MaxDepth == 10              \* the fuse of the reflection loop (line 196)
SpecValue == 500            \* sphereMaterial.specValue = 5.0 (line 179)
SpecPower == 100            \* sphereMaterial.specPower = 100.0 (line 179)
AmbientStrength == 10       \* 0.1f (line 174)

Min(a, b) == IF a < b THEN a ELSE b
Max(a, b) == IF a > b THEN a ELSE b

\* ------------------------------------------------------------------- Color
\* Color(): the undefined sentinel.
ColorUndefined == [defined |-> FALSE, red |-> 0, green |-> 0, blue |-> 0]

\* Color(r, g, b): always defined, each channel clamped to [0, 1].
Color(r, g, b) ==
  [defined |-> TRUE,
   red   |-> Max(Min(r, Unit), 0),
   green |-> Max(Min(g, Unit), 0),
   blue  |-> Max(Min(b, Unit), 0)]

\* Color::operator*(float scale), the scale given as the fraction num/den.
ColorScale(c, num, den) ==
  Color((c.red * num) \div den, (c.green * num) \div den, (c.blue * num) \div den)

\* Variants of operator+ that propagate the flag instead of going through the
\* three-argument constructor.
ColorAddSticky(a, b) ==
  [Color(a.red + b.red, a.green + b.green, a.blue + b.blue)
     EXCEPT !.defined = a.defined]
ColorAddFlagged(a, b) ==
  [Color(a.red + b.red, a.green + b.green, a.blue + b.blue)
     EXCEPT !.defined = a.defined /\ b.defined]

\* Color::operator+: builds its result through Color(r, g, b).
ColorAdd(a, b) == Color(a.red + b.red, a.green + b.green, a.blue + b.blue)

\* A renderer that stores every pixel, traced or not.
isDefinedAlways(c) == TRUE

\* The simpler variant's Color(r, g, b) and operator+: defined, not clamped.
ColorPlain(r, g, b) == [defined |-> TRUE, red |-> r, green |-> g, blue |-> b]
ColorAddPlain(a, b) == ColorPlain(a.red + b.red, a.green + b.green, a.blue + b.blue)

\* Color::isDefined.
isDefined(c) == c.defined

\* redByte/greenByte/blueByte: uint8_t(channel * 0xFF).
ChannelByte(x) == ((x * 255) \div Unit) % 256

\* ------------------------------------------------------------------- scene
Sphere1 == [center |-> <<0, 50, -100>>,  albedo |-> Color(100, 0, 0)]
Sphere2 == [center |-> <<0, -50, -100>>, albedo |-> Color(96, 94, 32)]
Light1 == <<50, 50, 0>>
Light2 == <<-300, 0, -200>>

\* What raySphereIntersections can return: nothing, or the two roots
\* s - q <= s + q.  Roots at or below Epsilon stand for every root the
\* caller rejects (behind the origin, or the ray's own origin after a bounce).
RootChoices ==
  {<<>>} \cup {p \in (0..TMax) \X (0..TMax) : p[1] <= p[2]}

Centers(sphereList) == {sphereList[k].center : k \in 1..Len(sphereList)}

\* The default result of closestSphereIntersection (lines 126-127).
NoIntersection ==
  [found |-> FALSE,
   sphere |-> [center |-> <<0, 0, 0>>, albedo |-> ColorUndefined],
   t |-> 0]

\* The scan with "t <= tMin": a later candidate of equal t replaces the kept one.
RECURSIVE ScanRootsLastWins(_, _, _)
ScanRootsLastWins(sphere, ts, acc) ==
  IF ts = <<>> THEN acc
  ELSE LET t == Head(ts)
           take == t > Epsilon /\ (~acc.found \/ t <= acc.t)
       IN ScanRootsLastWins(sphere, Tail(ts),
                            IF take THEN [found |-> TRUE, sphere |-> sphere, t |-> t]
                            ELSE acc)

\* The inner loop of closestSphereIntersection over one sphere's roots
\* (lines 130-138); acc carries intersectionFound, tMin and ret.
RECURSIVE ScanRoots(_, _, _)
ScanRoots(sphere, ts, acc) ==
  IF ts = <<>> THEN acc
  ELSE LET t == Head(ts)
           take == t > Epsilon /\ (~acc.found \/ t < acc.t)
       IN ScanRoots(sphere, Tail(ts),
                    IF take THEN [found |-> TRUE, sphere |-> sphere, t |-> t]
                    ELSE acc)

\* The outer loop over the sphere list (lines 128-139); roots maps a sphere's
\* centre to what raySphereIntersections returns for it and the ray.
RECURSIVE ScanSpheres(_, _, _)
ScanSpheres(sphereList, roots, acc) ==
  IF sphereList = <<>> THEN acc
  ELSE ScanSpheres(Tail(sphereList), roots,
                   ScanRoots(Head(sphereList), roots[Head(sphereList).center], acc))

closestSphereIntersection(sphereList, roots) ==
  ScanSpheres(sphereList, roots, NoIntersection)

\* ----------------------------------------------------------------- shading
\* calculateLambert: max(0, lightDirection . sphereNormal).
calculateLambert(lightDotNormal) == Max(0, lightDotNormal)

\* powf(b, n) in fixed point, for 0 <= b <= 1, by repeated squaring.
RECURSIVE PowFixed(_, _)
PowFixed(b, n) ==
  IF n = 0 THEN Unit
  ELSE IF n % 2 = 0
       THEN LET h == PowFixed(b, n \div 2) IN (h * h) \div Unit
       ELSE (b * PowFixed(b, n - 1)) \div Unit

\* calculatePhong: specValue * powf(max(blinnDirection . sphereNormal, 0), specPower).
calculatePhong(blinnDotNormal) ==
  (SpecValue * PowFixed(Max(blinnDotNormal, 0), SpecPower)) \div Unit

\* A shadow test against the first sphere of the list only.
isShadowedByFirst(sphereList, shadowRoots) ==
  sphereList # <<>> /\
  closestSphereIntersection(<<Head(sphereList)>>, shadowRoots).found

\* isShadowed: the shadow ray is tested against the whole sphere list.
isShadowed(sphereList, shadowRoots) ==
  closestSphereIntersection(sphereList, shadowRoots).found

contributionFromLight(sphere, sphereList, shadowRoots, lightDotNormal, blinnDotNormal) ==
  IF isShadowed(sphereList, shadowRoots)
  THEN Color(0, 0, 0)
  ELSE ColorAdd(ColorScale(sphere.albedo, calculateLambert(lightDotNormal), Unit),
                ColorScale(sphere.albedo, calculatePhong(blinnDotNormal), Unit))

ambientLight(sphere) == ColorScale(sphere.albedo, AmbientStrength, Unit)

\* ------------------------------------------------------------------ state
VARIABLES
  pc,               \* position in main / renderImage
  resolution,       \* the global resolution
  pixels,           \* the framebuffer, 3 bytes per pixel
  p,                \* the write cursor, as a byte offset into pixels
  i, j,             \* row and column of the loops of main and renderImage
  spheres, lights,  \* the global scene lists
  currentDepth, pixelColor, reflectionFactor,   \* locals of the pixel loop
  sphereIntersection,  \* result of the last nearest-hit query of the loop
  lightIt,          \* position of the for loop over lights (1-based)
  file,             \* bytes written to the output file
  calls,            \* renderImage calls started so far
  firstOut,         \* the framebuffer the first call left (two-call driver)
  scene,            \* geometry already sampled, by ray and by shadow ray
  queries,          \* history: nearest-hit queries of the loop for this pixel
  ambientAdds,      \* history: ambient additions for this pixel
  primaryHit,       \* history: "none", "hit" or "miss" of the depth-0 query
  shadeLog,         \* history: the light contributions at the latest hit
  litCount,         \* history: light samples of this pixel with a positive dot product
  writes,           \* history: stores of each pixel's byte triple so far
  visited,          \* history: the pixels the running pass has handled, in order
  call              \* the pure function applied last, with inputs and result

vars == <<pc, resolution, pixels, p, i, j, spheres, lights, currentDepth,
          pixelColor, reflectionFactor, sphereIntersection, lightIt, file,
          calls, firstOut, scene, queries, ambientAdds, primaryHit, shadeLog,
          litCount, writes, visited, call>>

programVars == <<pc, resolution, pixels, p, i, j, spheres, lights, currentDepth,
          pixelColor, reflectionFactor, sphereIntersection, lightIt, file,
          calls, firstOut, scene, queries, ambientAdds, primaryHit, shadeLog,
          litCount, writes, visited>>

PixelCount == resolution * resolution
PixelIndex == i * resolution + j

\* roundToInt: (uint8_t)(value + 0.5), the value given as num/den.
roundToInt(num, den) == ((2 * num + den) \div (2 * den)) % 256

\* The three bytes main's pre-fill stores for pixel (row, col): blue ramps
\* with the row, green with the column, by 255/resolution a step.
BackgroundBytes(row, col) ==
  <<roundToInt(row * 255, resolution) % 256,
    roundToInt(col * 255, resolution) % 256,
    0>>

\* *p = b1; p++; *p = b2; p++; *p = b3; p++ at byte offset off of buf.
StoreTriple(buf, off, triple) ==
  [n \in 1..Len(buf) |->
     IF n = off + 1 THEN triple[1]
     ELSE IF n = off + 2 THEN triple[2]
     ELSE IF n = off + 3 THEN triple[3]
     ELSE buf[n]]

\* The bytes renderImage stores for a defined colour: blue, green, red.
PixelBytes(c) == <<ChannelByte(c.blue), ChannelByte(c.green), ChannelByte(c.red)>>

\* tgaHeader as main fills it.
tgaHeader ==
  [n \in 1..18 |->
     IF n = 3 THEN 2
     ELSE IF n = 13 \/ n = 15 THEN resolution % 256
     ELSE IF n = 14 \/ n = 16 THEN (resolution \div 256) % 256
     ELSE IF n = 17 THEN 24
     ELSE 0]

\* State after the declarations of main up to the malloc, for a resolution.
InitProgram(res) ==
  /\ pc = "prefill"
  /\ resolution = res
  /\ pixels = [n \in 1..(3 * res * res) |-> -1]   \* malloc: indeterminate
  /\ p = 0
  /\ i = 0
  /\ j = 0
  /\ spheres = <<>>
  /\ lights = <<>>
  /\ currentDepth = 0
  /\ pixelColor = ColorUndefined
  /\ reflectionFactor = 0
  /\ sphereIntersection = NoIntersection
  /\ lightIt = 1
  /\ file = <<>>
  /\ calls = 0
  /\ firstOut = <<>>
  /\ scene = <<>>
  /\ queries = 0
  /\ ambientAdds = 0
  /\ primaryHit = "none"
  /\ shadeLog = <<>>
  /\ litCount = 0
  /\ writes = [k \in 0..(res * res - 1) |-> 0]
  /\ visited = <<>>
  /\ call = [name |-> "none"]

\* Advance the (i, j) loops by one pixel; i = resolution when they end.
NextJ == IF j + 1 = resolution THEN 0 ELSE j + 1
NextI == IF j + 1 = resolution THEN i + 1 ELSE i

\* main, lines 241-252: one iteration of the pre-fill loops.
Prefill ==
  /\ pc = "prefill"
  /\ pixels' = StoreTriple(pixels, p, BackgroundBytes(i, j))
  /\ writes' = [writes EXCEPT ![p \div 3] = @ + 1]
  /\ visited' = Append(visited, [row |-> i, col |-> j, offset |-> p,
                                 color |-> ColorUndefined])
  /\ p' = p + 3
  /\ i' = NextI
  /\ j' = NextJ
  /\ pc' = IF NextI = resolution THEN "render" ELSE "prefill"
  /\ UNCHANGED <<resolution, spheres, lights, currentDepth, pixelColor,
                 reflectionFactor, sphereIntersection, lightIt, file, calls,
                 firstOut, scene, queries, ambientAdds, primaryHit, shadeLog,
                 litCount, call>>

\* renderImage, lines 179-185: the scene is appended to the global lists.
RenderSetup ==
  /\ pc = "render"
  /\ spheres' = spheres \o <<Sphere1, Sphere2>>
  /\ lights' = lights \o <<Light1, Light2>>
  /\ p' = 0
  /\ i' = 0
  /\ j' = 0
  /\ calls' = calls + 1
  /\ visited' = <<>>
  /\ pc' = "pixel"
  /\ UNCHANGED <<resolution, pixels, currentDepth, pixelColor, reflectionFactor,
                 sphereIntersection, lightIt, file, firstOut, scene, queries,
                 ambientAdds, primaryHit, shadeLog, litCount, writes, call>>

\* renderImage, lines 186-195: the loop tests and the locals of one pixel.
PixelStart ==
  /\ pc = "pixel"
  /\ i < resolution
  /\ currentDepth' = 0
  /\ pixelColor' = ColorUndefined
  /\ reflectionFactor' = FactorUnit
  /\ queries' = 0
  /\ ambientAdds' = 0
  /\ primaryHit' = "none"
  /\ shadeLog' = <<>>
  /\ litCount' = 0
  /\ pc' = "trace"
  /\ UNCHANGED <<resolution, pixels, p, i, j, spheres, lights, sphereIntersection,
                 lightIt, file, calls, firstOut, scene, writes, visited, call>>

\* ------------------------------------------------------------ environment
\* The geometry a step may be handed: roots per sphere for the traced ray and
\* for shadow rays, the two dot products of the shading terms, how many
\* reflections the scene allows a ray, how many light samples may be lit, and
\* whether sampled geometry is remembered (so that a second render of the
\* same scene meets the same geometry).
RenderRoots == {<<>>, <<0, 1>>, <<0, 2>>, <<2, 3>>}

EnvTrace ==
  [roots |-> RenderRoots, shadows |-> RenderRoots,
   lightDots |-> {-50, 50}, blinnDots |-> {0, 100},
   bounces |-> MaxDepth, lit |-> LitBound, remember |-> FALSE]

EnvFrame ==
  [roots |-> RenderRoots, shadows |-> {<<>>},
   lightDots |-> {0}, blinnDots |-> {0},
   bounces |-> BounceBound, lit |-> 0, remember |-> FALSE]

EnvTwice ==
  [roots |-> {<<>>, <<2, 3>>}, shadows |-> {<<>>, <<2, 3>>},
   lightDots |-> {0, 50}, blinnDots |-> {0},
   bounces |-> BounceBound, lit |-> 2 * MaxDepth, remember |-> TRUE]

RayKey == [kind |-> "ray", i |-> i, j |-> j, depth |-> currentDepth, light |-> <<0, 0, 0>>]
ShadowKey(light) ==
  [kind |-> "shadow", i |-> i, j |-> j, depth |-> currentDepth, light |-> light]

Sampled(env, key, value) ==
  (env.remember /\ key \in DOMAIN scene) => scene[key] = value
Remember(env, key, value) ==
  IF env.remember /\ key \notin DOMAIN scene THEN (key :> value) @@ scene ELSE scene

\* Some root of some sphere of the list exceeds the epsilon.
Occluded(sphereList, roots) ==
  \E c \in Centers(sphereList) : \E n \in 1..Len(roots[c]) : roots[c][n] > Epsilon

\* An ambient term added at every hit, reflected rays included.
AddsAmbientOnEveryHit(found, depth) == found

\* Line 201: the ambient term is added for a hit of the primary ray only.
AddsAmbient(found, depth) == found /\ depth = 0

\* A miss that leaves the counter as it is.
DepthKeptOnMiss == currentDepth

\* Line 219: a miss ends the loop by overwriting the counter.
DepthAfterMiss == MaxDepth

\* renderImage, lines 196-205 and 218-220: the loop test, the nearest-hit
\* query, the ambient term of the primary hit, and the exit on a miss.
TraceQuery(env) ==
  /\ pc = "trace"
  /\ currentDepth < MaxDepth
  /\ \E roots \in [Centers(spheres) ->
                     IF currentDepth < env.bounces THEN env.roots ELSE {<<>>}] :
       LET found == closestSphereIntersection(spheres, roots) IN
       /\ Sampled(env, RayKey, roots)
       /\ scene' = Remember(env, RayKey, roots)
       /\ sphereIntersection' = found
       /\ queries' = queries + 1
       /\ primaryHit' = IF currentDepth # 0 THEN primaryHit
                        ELSE IF found.found THEN "hit" ELSE "miss"
       /\ IF AddsAmbient(found.found, currentDepth)
          THEN /\ pixelColor' = ColorAdd(pixelColor, ambientLight(found.sphere))
               /\ ambientAdds' = ambientAdds + 1
          ELSE UNCHANGED <<pixelColor, ambientAdds>>
       /\ IF found.found
          THEN /\ pc' = "light"
               /\ lightIt' = 1
               /\ shadeLog' = <<>>
               /\ UNCHANGED currentDepth
          ELSE /\ pc' = "trace"
               /\ currentDepth' = DepthAfterMiss
               /\ UNCHANGED <<lightIt, shadeLog>>
  /\ UNCHANGED <<resolution, pixels, p, i, j, spheres, lights, reflectionFactor,
                 file, calls, firstOut, litCount, writes, visited, call>>

\* The dot products a light sample may be handed: they are only computed (and
\* so only drawn) for an unshadowed light, and positive ones only while the
\* pixel has had fewer than env.lit lit samples.
DotsDrawn(env, dots, shadowRoots) ==
  IF isShadowed(spheres, shadowRoots) THEN {0}
  ELSE IF litCount < env.lit THEN dots
  ELSE {d \in dots : d <= 0}

\* renderImage, lines 209-211: one light of the for loop over lights.
LightStep(env) ==
  /\ pc = "light"
  /\ lightIt <= Len(lights)
  /\ \E shadowRoots \in [Centers(spheres) -> env.shadows] :
     \E lightDotNormal \in DotsDrawn(env, env.lightDots, shadowRoots) :
     \E blinnDotNormal \in DotsDrawn(env, env.blinnDots, shadowRoots) :
       LET light == lights[lightIt]
           geometry == <<shadowRoots, lightDotNormal, blinnDotNormal>>
           contribution ==
             contributionFromLight(sphereIntersection.sphere, spheres,
                                   shadowRoots, lightDotNormal, blinnDotNormal)
           sum == ColorAdd(pixelColor,
                           ColorScale(contribution, reflectionFactor, FactorUnit))
       IN
       /\ Sampled(env, ShadowKey(light), geometry)
       /\ scene' = Remember(env, ShadowKey(light), geometry)
       /\ pixelColor' = sum
       /\ shadeLog' = Append(shadeLog,
            [depth |-> currentDepth, factor |-> reflectionFactor,
             sphere |-> sphereIntersection.sphere,
             occluded |-> Occluded(spheres, shadowRoots),
             lightDot |-> lightDotNormal, blinnDot |-> blinnDotNormal,
             contribution |-> contribution, before |-> pixelColor, after |-> sum])
       /\ litCount' = IF lightDotNormal > 0 \/ blinnDotNormal > 0
                       THEN litCount + 1 ELSE litCount
  /\ lightIt' = lightIt + 1
  /\ UNCHANGED <<pc, resolution, pixels, p, i, j, spheres, lights, currentDepth,
                 reflectionFactor, sphereIntersection, file, calls, firstOut,
                 queries, ambientAdds, primaryHit, writes, visited, call>>

\* A decay of one half per bounce.
DecayHalf(factor) == factor \div 2

\* reflectionFactor * 0.6f.
Decay(factor) == (factor * 3) \div 5

\* renderImage, lines 212-217: after the last light the factor decays, the
\* ray is reflected at the hit point and the depth goes up by one.
Reflect ==
  /\ pc = "light"
  /\ lightIt > Len(lights)
  /\ reflectionFactor' = Decay(reflectionFactor)
  /\ currentDepth' = currentDepth + 1
  /\ pc' = "trace"
  /\ UNCHANGED <<resolution, pixels, p, i, j, spheres, lights, pixelColor,
                 sphereIntersection, lightIt, file, calls, firstOut, scene,
                 queries, ambientAdds, primaryHit, shadeLog, litCount, writes,
                 visited, call>>

\* An undefined pixel that does not move the cursor.
SkipCursorStays(off) == off

\* Line 227: p += 3 for an undefined colour.
SkipCursor(off) == off + 3

\* renderImage, lines 222-228: the loop has ended; a defined colour is stored
\* blue, green, red, an undefined one only moves the cursor.
WritePixel ==
  /\ pc = "trace"
  /\ ~(currentDepth < MaxDepth)
  /\ IF isDefined(pixelColor)
     THEN /\ pixels' = StoreTriple(pixels, p, PixelBytes(pixelColor))
          /\ writes' = [writes EXCEPT ![p \div 3] = @ + 1]
     ELSE UNCHANGED <<pixels, writes>>
  /\ p' = IF isDefined(pixelColor) THEN p + 3 ELSE SkipCursor(p)
  /\ visited' = Append(visited, [row |-> i, col |-> j, offset |-> p,
                                 color |-> pixelColor])
  /\ i' = NextI
  /\ j' = NextJ
  /\ pc' = "pixel"
  /\ UNCHANGED <<resolution, spheres, lights, currentDepth, pixelColor,
                 reflectionFactor, sphereIntersection, lightIt, file, calls,
                 firstOut, scene, queries, ambientAdds, primaryHit, shadeLog,
                 litCount, call>>

\* renderImage, line 186: the row loop ends and renderImage returns.
RenderReturn ==
  /\ pc = "pixel"
  /\ ~(i < resolution)
  /\ pc' = "returned"
  /\ UNCHANGED <<resolution, pixels, p, i, j, spheres, lights, currentDepth,
                 pixelColor, reflectionFactor, sphereIntersection, lightIt, file,
                 calls, firstOut, scene, queries, ambientAdds, primaryHit,
                 shadeLog, litCount, writes, visited, call>>

\* main, lines 264-265: header and framebuffer go to the file.
Fwrite ==
  /\ pc = "returned"
  /\ file' = tgaHeader \o pixels
  /\ pc' = "done"
  /\ UNCHANGED <<resolution, pixels, p, i, j, spheres, lights, currentDepth,
                 pixelColor, reflectionFactor, sphereIntersection, lightIt,
                 calls, firstOut, scene, queries, ambientAdds, primaryHit,
                 shadeLog, litCount, writes, visited, call>>

\* ---------------------------------------------------------- specifications
\* The program as main runs it, on scenes of at most BounceBound reflections
\* per pixel and lights that add no colour.
Init == InitProgram(Resolution)

Next ==
  \/ Prefill
  \/ RenderSetup
  \/ PixelStart
  \/ TraceQuery(EnvFrame)
  \/ LightStep(EnvFrame)
  \/ Reflect
  \/ WritePixel
  \/ RenderReturn
  \/ Fwrite

Spec == Init /\ [][Next]_vars

\* The same program on a one-pixel image, over every geometry of EnvTrace.
InitTrace == InitProgram(1)

NextTrace ==
  \/ Prefill
  \/ RenderSetup
  \/ PixelStart
  \/ TraceQuery(EnvTrace)
  \/ LightStep(EnvTrace)
  \/ Reflect
  \/ WritePixel
  \/ RenderReturn
  \/ Fwrite

SpecTrace == InitTrace /\ [][NextTrace]_vars

\* The two-call driver: renderImage is called a second time in the same
\* process, on a second framebuffer pre-filled like the first.
CallAgain ==
  /\ pc = "returned"
  /\ calls < 2
  /\ firstOut' = pixels
  /\ pixels' = [n \in 1..Len(pixels) |->
                  BackgroundBytes(((n - 1) \div 3) \div resolution,
                                  ((n - 1) \div 3) % resolution)[((n - 1) % 3) + 1]]
  /\ pc' = "render"
  /\ UNCHANGED <<resolution, p, i, j, spheres, lights, currentDepth, pixelColor,
                 reflectionFactor, sphereIntersection, lightIt, file, calls,
                 scene, queries, ambientAdds, primaryHit, shadeLog, litCount,
                 writes, visited, call>>

InitTwice == InitProgram(1)

NextTwice ==
  \/ Prefill
  \/ RenderSetup
  \/ PixelStart
  \/ TraceQuery(EnvTwice)
  \/ LightStep(EnvTwice)
  \/ Reflect
  \/ WritePixel
  \/ RenderReturn
  \/ CallAgain

SpecTwice == InitTwice /\ [][NextTwice]_vars

\* The pure functions on inputs drawn from bounded sets.
ChannelSamples == {0, 60, 100}
ColorSamples ==
  {ColorUndefined} \cup
  {Color(r, g, b) : r \in ChannelSamples, g \in ChannelSamples, b \in ChannelSamples}

SphereLists ==
  {<<>>, <<Sphere1>>, <<Sphere1, Sphere2>>, <<Sphere2, Sphere1>>,
   <<Sphere1, Sphere2, Sphere1, Sphere2>>}

ApplyColorAdd ==
  /\ \E a \in ColorSamples, b \in ColorSamples :
       call' = [name |-> "operator+", clamped |-> TRUE, a |-> a, b |-> b,
                result |-> ColorAdd(a, b)]
  /\ UNCHANGED programVars

ApplyColorAddPlain ==
  /\ \E a \in ColorSamples, b \in ColorSamples :
       call' = [name |-> "operator+", clamped |-> FALSE, a |-> a, b |-> b,
                result |-> ColorAddPlain(a, b)]
  /\ UNCHANGED programVars

ApplyColorScale ==
  /\ \E a \in ColorSamples, num \in {0, 50, 100, 500} :
       call' = [name |-> "operator*", a |-> a, scale |-> num,
                result |-> ColorScale(a, num, Unit)]
  /\ UNCHANGED programVars

ApplyClosest ==
  /\ \E sphereList \in SphereLists :
     \E roots \in [Centers(sphereList) -> RootChoices] :
       call' = [name |-> "closestSphereIntersection", spheres |-> sphereList,
                roots |-> roots,
                result |-> closestSphereIntersection(sphereList, roots)]
  /\ UNCHANGED programVars

InitPure == InitProgram(1)

NextPure ==
  \/ ApplyColorAdd
  \/ ApplyColorAddPlain
  \/ ApplyColorScale
  \/ ApplyClosest

SpecPure == InitPure /\ [][NextPure]_vars

\* ------------------------------------------------------------- properties
RECURSIVE Power(_, _)
Power(b, n) == IF n = 0 THEN 1 ELSE b * Power(b, n - 1)

\* 0.6^k in units of 1/5^10.
Pow06(k) == Power(3, k) * Power(5, MaxDepth - k)

Black == [defined |-> TRUE, red |-> 0, green |-> 0, blue |-> 0]

TripleAt(buf, off) == <<buf[off + 1], buf[off + 2], buf[off + 3]>>

\* An upper bound on the steps the program still takes: with n lights a bounce
\* is one query, n light samples and one reflection, a pixel is MaxDepth
\* bounces at most, then its write.
BounceSteps(n) == n + 2
PixelSteps(n) == MaxDepth * BounceSteps(n) + 3
RemainingSteps ==
  LET n == Len(lights)
      later == (PixelCount - PixelIndex - 1) * PixelSteps(n) + 2
  IN CASE pc = "done" -> 0
       [] pc = "returned" -> 1
       [] pc = "pixel" -> (PixelCount - PixelIndex) * PixelSteps(n) + 2
       [] pc = "trace" -> later + (MaxDepth - currentDepth) * BounceSteps(n) + 1
       [] pc = "light" -> later + (MaxDepth - currentDepth - 1) * BounceSteps(n)
                            + (n - lightIt + 1) + 2
       [] pc = "render" -> PixelCount * PixelSteps(n + 2) + 3
       [] pc = "prefill" -> PixelCount * PixelSteps(n + 2) + 3
                              + (PixelCount - PixelIndex)

\* C1: the reflection loop makes at most 10 nearest-hit queries for a pixel:
\* a query that hits is followed by exactly one increment of currentDepth, a
\* query that misses sets currentDepth to 10, so the loop exits even when
\* every bounce hits again, and every step of the program lowers a
\* non-negative bound on the steps that remain, so the render terminates.
C1_FuseBoundsTheLoop ==
  /\ [](/\ queries <= MaxDepth
        /\ currentDepth <= MaxDepth
        /\ (pc = "light" => currentDepth < MaxDepth /\ queries = currentDepth + 1)
        /\ (pc = "trace" => currentDepth = queries \/ currentDepth = MaxDepth))
  /\ [][/\ (queries' = queries + 1 /\ sphereIntersection'.found)
             => currentDepth' = currentDepth
        /\ (queries' = queries + 1 /\ ~sphereIntersection'.found)
             => currentDepth' = MaxDepth
        /\ (pc = "light" /\ pc' = "trace") => currentDepth' = currentDepth + 1
        /\ (pc = "trace" /\ pc' = "pixel") => ~(currentDepth < MaxDepth)
        /\ RemainingSteps' < RemainingSteps]_vars
  /\ [](RemainingSteps >= 0)

\* Ten queries were made and every one of them hit: the fuse ends the loop.
C1_Witness ==
  /\ pc = "trace"
  /\ queries = MaxDepth
  /\ currentDepth = MaxDepth
  /\ sphereIntersection.found

\* C2: once the primary ray of a pixel has been traced, and so when the trace
\* ends, pixelColor is undefined if and only if the primary ray hit no sphere.
C2_DefinedIffPrimaryHit ==
  /\ (pc \in {"trace", "light"} /\ queries > 0) => primaryHit \in {"hit", "miss"}
  /\ primaryHit # "none" => (pixelColor.defined <=> primaryHit = "hit")

\* The trace has ended after a primary hit at which both lights were shadowed
\* and a miss of the reflected ray: the colour is the ambient term, defined.
C2_Witness ==
  /\ pc = "trace"
  /\ currentDepth = MaxDepth
  /\ queries = 2
  /\ primaryHit = "hit"
  /\ Len(shadeLog) = 2
  /\ \A n \in 1..Len(shadeLog) : shadeLog[n].occluded
  /\ pixelColor.defined
  /\ pixelColor = ambientLight(Sphere2)

\* C3: a pixel whose colour is undefined keeps the bytes of the pre-fill and
\* still moves the cursor by 3, so pixel (i, j) is handled at byte offset
\* 3 * (i * resolution + j) whatever came before; a defined pixel's bytes are
\* its blue, green and red bytes in that order.
C3_UndefinedKeepsBackground ==
  /\ \A n \in 1..Len(visited) :
       LET e == visited[n] IN
       /\ e.offset = 3 * (e.row * resolution + e.col)
       /\ TripleAt(pixels, e.offset) =
            IF e.color.defined
            THEN <<ChannelByte(e.color.blue), ChannelByte(e.color.green),
                   ChannelByte(e.color.red)>>
            ELSE BackgroundBytes(e.row, e.col)
  /\ pc \in {"pixel", "trace", "light"} => p = 3 * PixelIndex

\* renderImage has returned from an image in which an undefined pixel came
\* before a defined one and a defined one before an undefined one.
C3_Witness ==
  /\ pc = "returned"
  /\ \E m, n, k \in 1..Len(visited) :
       /\ m < n /\ n < k
       /\ ~visited[m].color.defined
       /\ visited[n].color.defined
       /\ ~visited[k].color.defined
       /\ TripleAt(pixels, visited[n].offset) # BackgroundBytes(visited[n].row, visited[n].col)

\* C4: the ambient term is added exactly once for a pixel whose primary ray
\* hits, and never otherwise: a query at depth >= 1 leaves the colour as it is,
\* and the depth-0 query adds albedo * 0.1 of the hit sphere or nothing.
C4_AmbientOncePerPixel ==
  /\ [](ambientAdds = IF primaryHit = "hit" THEN 1 ELSE 0)
  /\ [][/\ (pc = "trace" /\ currentDepth >= 1) => pixelColor' = pixelColor
        /\ (pc = "trace" /\ currentDepth = 0 /\ queries' = queries + 1) =>
             pixelColor' =
               IF sphereIntersection'.found
               THEN ColorAdd(pixelColor,
                             ColorScale(sphereIntersection'.sphere.albedo, 10, 100))
               ELSE pixelColor]_vars

\* A reflected ray has hit again, and the ambient term was still added once.
C4_Witness ==
  /\ pc = "light"
  /\ currentDepth >= 1
  /\ sphereIntersection.found
  /\ ambientAdds = 1

\* C5: at every iteration of the loop reflectionFactor is 0.6^currentDepth,
\* every light's contribution at bounce k enters the colour scaled by 0.6^k,
\* and the factor is 1.0 when a pixel's trace starts.
C5_GeometricAttenuation ==
  /\ (pc \in {"trace", "light"} /\ currentDepth < MaxDepth)
       => reflectionFactor = Pow06(currentDepth)
  /\ (pc = "trace" /\ queries = 0) => reflectionFactor = Pow06(0)
  /\ \A n \in 1..Len(shadeLog) :
       LET e == shadeLog[n] IN
       /\ e.factor = Pow06(e.depth)
       /\ e.after = ColorAdd(e.before,
                             ColorScale(e.contribution, Pow06(e.depth), Pow06(0)))

\* A lit light at bounce 2 has changed the colour, scaled by 0.36.
C5_Witness ==
  /\ pc = "light"
  /\ currentDepth = 2
  /\ \E n \in 1..Len(shadeLog) :
       /\ shadeLog[n].depth = 2
       /\ shadeLog[n].contribution # Black
       /\ shadeLog[n].after # shadeLog[n].before

\* C6: two calls of renderImage in one process, each started from the same
\* pre-filled framebuffer and seeing the same geometry, leave the same bytes.
C6_SecondRenderIdentical ==
  (pc = "returned" /\ calls = 2) => pixels = firstOut

\* The (list index, root index) pairs of the roots above the epsilon.
Candidates(sphereList, roots) ==
  {c \in (1..Len(sphereList)) \X (1..2) :
     /\ c[2] <= Len(roots[sphereList[c[1]].center])
     /\ roots[sphereList[c[1]].center][c[2]] > Epsilon}

RootAt(sphereList, roots, c) == roots[sphereList[c[1]].center][c[2]]

Earlier(c, d) == c[1] < d[1] \/ (c[1] = d[1] /\ c[2] < d[2])

\* C7: closestSphereIntersection reports no hit exactly when no root of any
\* sphere exceeds the epsilon; otherwise it returns the minimum root above the
\* epsilon with the sphere of the first candidate, in list order, that has it.
C7_ClosestIsFirstMinimum ==
  call.name = "closestSphereIntersection" =>
    LET cands == Candidates(call.spheres, call.roots) IN
    /\ call.result.found <=> cands # {}
    /\ cands = {} => call.result = NoIntersection
    /\ cands # {} =>
         \E c \in cands :
           /\ \A d \in cands :
                RootAt(call.spheres, call.roots, c) <= RootAt(call.spheres, call.roots, d)
           /\ \A d \in cands :
                RootAt(call.spheres, call.roots, d) = RootAt(call.spheres, call.roots, c)
                  => (d = c \/ Earlier(c, d))
           /\ call.result.t = RootAt(call.spheres, call.roots, c)
           /\ call.result.sphere = call.spheres[c[1]]

\* Two different spheres share the minimum root: the first in the list is kept.
C7_Witness ==
  /\ call.name = "closestSphereIntersection"
  /\ call.spheres = <<Sphere2, Sphere1>>
  /\ call.roots[Sphere1.center] = <<2, 3>>
  /\ call.roots[Sphere2.center] = <<0, 2>>
  /\ call.result.found
  /\ call.result.t = 2
  /\ call.result.sphere = Sphere2

\* C8 as stated: over the whole run every pixel is stored exactly once.
C8_EachPixelStoredOnce ==
  pc \in {"returned", "done"} => \A k \in DOMAIN writes : writes[k] = 1

\* C8: each pass over the framebuffer, the pre-fill and the pixel loop of
\* renderImage, visits every pixel once in raster order; the pre-fill stores
\* every pixel, renderImage stores again exactly the pixels whose colour is
\* defined, and the file receives bytes only after both, all of them set.
C8_TwoRasterPasses ==
  /\ \A n \in 1..Len(visited) :
       /\ visited[n].row * resolution + visited[n].col = n - 1
       /\ visited[n].row \in 0..(resolution - 1)
       /\ visited[n].col \in 0..(resolution - 1)
  /\ pc = "render" =>
       /\ Len(visited) = PixelCount
       /\ \A k \in DOMAIN writes : writes[k] = 1
  /\ pc \in {"returned", "done"} =>
       /\ Len(visited) = PixelCount
       /\ \A k \in DOMAIN writes :
            writes[k] = IF visited[k + 1].color.defined THEN 2 ELSE 1
  /\ pc # "done" => file = <<>>
  /\ pc = "done" =>
       /\ file = tgaHeader \o pixels
       /\ \A n \in 1..Len(pixels) : pixels[n] \in 0..255

\* The file is written after a render that stored some pixels twice and left
\* others with the single store of the pre-fill.
C8_Witness ==
  /\ pc = "done"
  /\ \E k \in DOMAIN writes : writes[k] = 2
  /\ \E k \in DOMAIN writes : writes[k] = 1
  /\ Len(file) = 18 + 3 * PixelCount

\* C9 as stated: adding a colour to an undefined accumulator leaves the sum
\* undefined, with the channels of the colour added.
C9_UndefinedStaysUndefined ==
  (call.name = "operator+" /\ ~call.a.defined) =>
    /\ ~call.result.defined
    /\ call.result.red = call.b.red
    /\ call.result.green = call.b.green
    /\ call.result.blue = call.b.blue

Clamp(x) == Min(Unit, Max(0, x))

\* C9: operator+ does not look at the flag: the undefined accumulator counts
\* as (0,0,0), and the sum, built by the three-argument constructor, is always
\* defined (and clamped to [0,1] per channel in the richer variant).
C9_SumIsAlwaysDefined ==
  call.name = "operator+" =>
    /\ call.result.defined
    /\ ~call.a.defined => (call.a.red = 0 /\ call.a.green = 0 /\ call.a.blue = 0)
    /\ call.result.red =
         IF call.clamped THEN Clamp(call.a.red + call.b.red)
         ELSE call.a.red + call.b.red
    /\ call.result.green =
         IF call.clamped THEN Clamp(call.a.green + call.b.green)
         ELSE call.a.green + call.b.green
    /\ call.result.blue =
         IF call.clamped THEN Clamp(call.a.blue + call.b.blue)
         ELSE call.a.blue + call.b.blue

\* Color() + c for a defined c: the sum is c, and it is defined.
C9_Witness ==
  /\ call.name = "operator+"
  /\ call.clamped
  /\ ~call.a.defined
  /\ call.b = Color(60, 0, 100)
  /\ call.result.defined
  /\ call.result = call.b

\* C10 as stated: a light's contribution is black exactly when it is occluded.
C10_BlackExactlyWhenShadowed ==
  \A n \in 1..Len(shadeLog) :
    (shadeLog[n].contribution = Black) <=> shadeLog[n].occluded

\* C10: a light whose shadow ray meets any sphere of the list at t above the
\* epsilon contributes black; any other light contributes albedo * lambert +
\* albedo * phong, which is black too when both terms are 0; each light's
\* contribution is added to the colour left by the light before it.
C10_ShadowPerLight ==
  \A n \in 1..Len(shadeLog) :
    LET e == shadeLog[n]
        albedo == e.sphere.albedo
    IN
    /\ e.contribution =
         IF e.occluded THEN Black
         ELSE ColorAdd(ColorScale(albedo, Max(0, e.lightDot), Unit),
                       ColorScale(albedo, calculatePhong(e.blinnDot), Unit))
    /\ e.after = ColorAdd(e.before, ColorScale(e.contribution, e.factor, FactorUnit))
    /\ n > 1 => e.before = shadeLog[n - 1].after

\* At one hit the first light is occluded and adds nothing, the second is
\* lit and changes the colour.
C10_Witness ==
  /\ Len(shadeLog) = 2
  /\ shadeLog[1].occluded
  /\ shadeLog[1].after = shadeLog[1].before
  /\ ~shadeLog[2].occluded
  /\ shadeLog[2].contribution # Black
  /\ shadeLog[2].after # shadeLog[2].before

====
